---- MODULE Spec2Model ----
(***************************************************************************)
(* Job Hunter CRM (src/job_tracker/app.py): the SQLite store of companies, *)
(* contacts and applications, the Streamlit handlers that write it (Save   *)
(* Application, Update Record, Save Contact) and the dashboard queries     *)
(* that read it.  Every browser session runs the script in its own thread  *)
(* against the same database file, and every run_query / get_data call     *)
(* opens its own connection and commits on its own, so the statements of   *)
(* two sessions interleave at the granularity of one SQL statement.        *)
(***************************************************************************)
EXTENDS Integers, Sequences, FiniteSets, TLC

VARIABLES
    companies,      \* rows of table companies, in rowid order
    contacts,       \* rows of table contacts, in rowid order
    applications,   \* rows of table applications, in rowid order
    pc,             \* per session: position inside the Save Application handler
    company_name,   \* per session: local company_name of the running handler
    check_comp,     \* per session: local check_comp (ids the lookup returned)
    comp_id,        \* per session: local comp_id
    returned,       \* history: per company name, every comp_id a save resolved it to
    last            \* what the last handler run did and showed

vars == <<companies, contacts, applications, pc, company_name, check_comp,
          comp_id, returned, last>>

store == <<companies, contacts, applications>>

locals == <<pc, company_name, check_comp, comp_id>>

----------------------------------------------------------------------------
(* Bounds of the model *)

MaxApps == 2

MaxContacts == 1

MaxAppsEdit == 1

MaxAppsDash == 1

MaxAppsRepo == 2

Sess == {"s1", "s2"}

----------------------------------------------------------------------------
(* Text.  A status is kept as its sequence of characters, so that LIKE and   *)
(* substring tests are computed and not assumed.                            *)

Applied == <<"A","p","p","l","i","e","d">>
Screening == <<"S","c","r","e","e","n","i","n","g">>
TechInterview == <<"T","e","c","h"," ","I","n","t","e","r","v","i","e","w">>
ManagerInterview ==
    <<"M","a","n","a","g","e","r"," ","I","n","t","e","r","v","i","e","w">>
Offer == <<"O","f","f","e","r">>
Rejected == <<"R","e","j","e","c","t","e","d">>
OfferAccepted == <<"O","f","f","e","r"," ","A","c","c","e","p","t","e","d">>
Interview == <<"I","n","t","e","r","v","i","e","w">>

\* options of the "Stage" selectbox of the entry form
Stages == <<Applied, Screening, TechInterview, ManagerInterview, Offer, Rejected>>

\* the edit form's options with the first stage left out
UpdateOptionsShort ==
    <<Screening, TechInterview, ManagerInterview, Offer, Rejected>>

\* options of the "Update Status" selectbox of the edit form
UpdateOptions ==
    <<Applied, Screening, TechInterview, ManagerInterview, Offer, Rejected>>

\* index=0 of the "Update Status" selectbox, as a position of UpdateOptions
DefaultIndex == 1

UpperCase == <<"A","I","M","O","R","S","T">>
LowerCase == <<"a","i","m","o","r","s","t">>

\* SQLite's LIKE folds the case of ASCII letters
Fold(ch) ==
    IF \E k \in DOMAIN UpperCase : UpperCase[k] = ch
    THEN LowerCase[CHOOSE k \in DOMAIN UpperCase : UpperCase[k] = ch]
    ELSE ch

\* text LIKE '%pat%'
Like(text, pat) ==
    \E i \in 0..(Len(text) - Len(pat)) :
        \A j \in 1..Len(pat) : Fold(text[i + j]) = Fold(pat[j])

\* SQL NULL, and Python's None read back from it
NULL == "<NULL>"

\* value or ""
OrEmpty(v) == IF v = NULL \/ v = "" THEN "" ELSE v

----------------------------------------------------------------------------
(* Dates.  A date is <<year, month, day>>; the store keeps it as ISO text.  *)

IsLeap(y) == (y % 4 = 0) /\ ((y % 100 # 0) \/ (y % 400 = 0))

DaysInMonth(y, m) ==
    IF m = 2 THEN (IF IsLeap(y) THEN 29 ELSE 28)
    ELSE IF m \in {4, 6, 9, 11} THEN 30 ELSE 31

NextDay(d) ==
    IF d[3] < DaysInMonth(d[1], d[2]) THEN <<d[1], d[2], d[3] + 1>>
    ELSE IF d[2] < 12 THEN <<d[1], d[2] + 1, 1>>
    ELSE <<d[1] + 1, 1, 1>>

RECURSIVE AddDays(_, _)
\* date + timedelta(days=n)
AddDays(d, n) == IF n = 0 THEN d ELSE AddDays(NextDay(d), n - 1)

\* character codes of '-' and of the digit k
Dash == 45
Digit(k) == 48 + k

\* str(date) and the sqlite3 date adapter: "YYYY-MM-DD" as character codes
IsoFormat(d) ==
    << Digit(d[1] \div 1000), Digit((d[1] \div 100) % 10),
       Digit((d[1] \div 10) % 10), Digit(d[1] % 10), Dash,
       Digit(d[2] \div 10), Digit(d[2] % 10), Dash,
       Digit(d[3] \div 10), Digit(d[3] % 10) >>

\* SQLite's comparison of two TEXT values (BINARY collation): a <= b
TextLeq(a, b) ==
    \/ \E k \in 1..Len(a) :
          /\ k <= Len(b)
          /\ \A j \in 1..(k - 1) : a[j] = b[j]
          /\ a[k] < b[k]
    \/ /\ Len(a) <= Len(b)
       /\ \A j \in 1..Len(a) : a[j] = b[j]

----------------------------------------------------------------------------
(* Inputs the forms can deliver *)

\* text_input "Enter New Company Name" / selectbox "Select Company"; "" stands
\* for the empty text box and for None (no existing company to select)
NameInputs == {"", "Acme", "Globex"}

\* date_input "Next Follow-up Date"
FollowUps == {<<2024, 12, 29>>, <<2025, 1, 1>>, <<2025, 4, 8>>}

\* date.today() at the time the dashboard is rendered
Todays == {<<2024, 12, 28>>, <<2024, 12, 29>>, <<2024, 12, 30>>}

\* date_input "Date Applied", text_input "Position Title", "Link to Job Post",
\* "Resume Version Sent"
AppliedDate == <<2024, 12, 28>>
PositionInput == "Engineer"
JobLinkInput == ""
ResumeInput == "v1.0"

\* a text widget of the edit form the user did not touch
NoEdit == "<unedited>"
NotesInputs == {NoEdit, "call back"}
LinkInputs == {NoEdit, "https://meet/1"}

\* number_input "Enter ID (from table above)", min_value=0
IdInputs(max) == 0..(max + 1)

----------------------------------------------------------------------------
(* The store: tables and the statements the program runs on them *)

Ids(rows) == {rows[i].id : i \in DOMAIN rows}

Max(S) == CHOOSE x \in S : \A y \in S : y <= x

\* the rowid SQLite gives a new row of an INTEGER PRIMARY KEY table
NextId(rows) == IF rows = <<>> THEN 1 ELSE Max(Ids(rows)) + 1

RECURSIVE IdColumn(_)
IdColumn(rows) ==
    IF rows = <<>> THEN <<>> ELSE <<Head(rows).id>> \o IdColumn(Tail(rows))

\* the lookup without its WHERE clause
SelectCompanyIdAll(comps, name) == IdColumn(comps)

\* SELECT id FROM companies WHERE name=?  (the column, in rowid order)
SelectCompanyId(comps, name) ==
    IdColumn(SelectSeq(comps, LAMBDA r : r.name = name))

\* the table without its UNIQUE clause
UniqueNotEnforced(comps, name) == FALSE

\* name TEXT UNIQUE: would the insert of this name be refused
UniqueViolation(comps, name) == \E i \in DOMAIN comps : comps[i].name = name

\* INSERT INTO companies (name) VALUES (?)
InsertCompany(comps, name) ==
    Append(comps, [id |-> NextId(comps), name |-> name,
                   website |-> NULL, notes |-> NULL])

\* FOREIGN KEY (company_id) REFERENCES companies (id): would the insert of a
\* row with this company_id be refused.  No connection ever runs
\* PRAGMA foreign_keys = ON, and SQLite leaves the clause unenforced without it.
ForeignKeyViolation(comps, cid) == FALSE

\* INSERT INTO applications (company_id, position_title, job_link, status,
\*   applied_date, follow_up_date, resume_version) VALUES (...)
InsertApplication(apps, cid, status, follow_up) ==
    Append(apps, [id |-> NextId(apps), company_id |-> cid,
                  position_title |-> PositionInput, job_link |-> JobLinkInput,
                  status |-> status, applied_date |-> IsoFormat(AppliedDate),
                  follow_up_date |-> IsoFormat(follow_up),
                  resume_version |-> ResumeInput,
                  meeting_link |-> NULL, notes |-> NULL])

\* the details query without its WHERE clause
DetailsAll(apps, id) == apps

\* SELECT * FROM applications WHERE id=?
Details(apps, id) == SelectSeq(apps, LAMBDA r : r.id = id)

\* UPDATE applications SET status=?, notes=?, meeting_link=? WHERE id=?
UpdateApplication(apps, id, status, notes, link) ==
    [i \in DOMAIN apps |->
        IF apps[i].id = id
        THEN [apps[i] EXCEPT !.status = status, !.notes = notes,
                             !.meeting_link = link]
        ELSE apps[i]]

\* INSERT INTO contacts (company_id, name, role, email, referral_strength)
InsertContact(cts, cid) ==
    Append(cts, [id |-> NextId(cts), company_id |-> cid, name |-> "Pat",
                 role |-> "Recruiter", email |-> "", linkedin |-> NULL,
                 referral_strength |-> "Cold"])

\* the dictionary built from row positions counted from 0, not from ids
CDictByPosition(comps) ==
    [n \in {comps[i].name : i \in DOMAIN comps} |->
        Max({i \in DOMAIN comps : comps[i].name = n}) - 1]

\* dict(zip(companies['name'], companies['id'])) of SELECT id, name FROM companies
CDict(comps) ==
    [n \in {comps[i].name : i \in DOMAIN comps} |->
        comps[Max({i \in DOMAIN comps : comps[i].name = n})].id]

----------------------------------------------------------------------------
(* Dashboard queries *)

\* SELECT COUNT(*) FROM applications
TotalApps(apps) == Len(apps)

\* the filter matching every status that starts with "Offer"
ActiveFilterPrefix(status) == ~ (status \in {Rejected, Offer, OfferAccepted})

\* status NOT IN ('Rejected', 'Offer Accepted')
ActiveFilter(status) == ~ (status \in {Rejected, OfferAccepted})

\* SELECT COUNT(*) FROM applications WHERE status NOT IN (...)
ActiveApps(apps) == Len(SelectSeq(apps, LAMBDA r : ActiveFilter(r.status)))

\* SELECT COUNT(*) FROM applications WHERE status LIKE '%Interview%'
Interviews(apps) == Len(SelectSeq(apps, LAMBDA r : Like(r.status, Interview)))

\* a window one day short
UpcomingShort(today) == AddDays(today, 2)

\* upcoming = today + timedelta(days=3)
Upcoming(today) == AddDays(today, 3)

\* x BETWEEN lo AND hi, on TEXT
Between(x, lo, hi) == TextLeq(lo, x) /\ TextLeq(x, hi)

\* the WHERE clause of action_query
NeedsAttention(row, today) ==
    \/ Between(row.follow_up_date, IsoFormat(today), IsoFormat(Upcoming(today)))
    \/ /\ Like(row.status, Interview)
       /\ TextLeq(IsoFormat(today), row.follow_up_date)

\* action_query: applications JOIN companies WHERE ..., as the ids of the
\* applications whose rows it returns
ActionQuery(apps, comps, today) ==
    {apps[i].id : i \in {j \in DOMAIN apps :
        /\ \E k \in DOMAIN comps : comps[k].id = apps[j].company_id
        /\ NeedsAttention(apps[j], today)}}

----------------------------------------------------------------------------
(* What a handler run reports *)

Saved == "Application Saved Successfully!"
NoName == "Please enter a company name."
Updated == "Updated!"
ContactAdded == "Contact Added!"
\* the script run is still inside the handler
Running == "running"
\* the edit form is not rendered: nothing is shown and no button exists
NoForm == "no form"
\* sqlite3.IntegrityError out of run_query (the UNIQUE or FOREIGN KEY clause)
IntegrityError == "sqlite3.IntegrityError"
\* sqlite3.OperationalError out of run_query (database is locked, disk I/O)
OperationalError == "sqlite3.OperationalError"

Errors == {IntegrityError, OperationalError}

NoOp ==
    [op |-> "none", res |-> "", name |-> "", id |-> 0,
     company_id |-> 0, from |-> <<>>, from_link |-> NULL, only_notes |-> FALSE,
     created |-> 0, n_before |-> 0, today |-> <<>>, actions |-> {},
     total |-> 0, active |-> 0, interviews |-> 0]

Init ==
    /\ companies = <<>>
    /\ contacts = <<>>
    /\ applications = <<>>
    /\ pc = [s \in Sess |-> "idle"]
    /\ company_name = [s \in Sess |-> ""]
    /\ check_comp = [s \in Sess |-> <<>>]
    /\ comp_id = [s \in Sess |-> 0]
    /\ returned = [n \in NameInputs \ {""} |-> {}]
    /\ last = NoOp

\* number of Save Application runs that have not reached their last statement
InFlight == Cardinality({s \in Sess : pc[s] # "idle"})

----------------------------------------------------------------------------
(* Save Application, one action per database call of the handler *)

\* if st.button("Save Application"): if company_name: check_comp = get_data(...)
\* and, when the lookup finds the company, comp_id = int(check_comp.iloc[0]['id'])
SaveCheck(s, name) ==
    /\ pc[s] = "idle"
    /\ IF name = ""
       THEN /\ last' = [NoOp EXCEPT !.op = "SaveApplication",
                                    !.res = NoName]
            /\ UNCHANGED <<store, locals, returned>>
       ELSE LET found == SelectCompanyId(companies, name) IN
            /\ company_name' = [company_name EXCEPT ![s] = name]
            /\ check_comp' = [check_comp EXCEPT ![s] = found]
            /\ IF found = <<>>
               THEN /\ pc' = [pc EXCEPT ![s] = "create"]
                    /\ UNCHANGED <<comp_id, returned>>
               ELSE /\ pc' = [pc EXCEPT ![s] = "insert"]
                    /\ comp_id' = [comp_id EXCEPT ![s] = found[1]]
                    /\ returned' = [returned EXCEPT ![name] = @ \cup {found[1]}]
            /\ last' = [NoOp EXCEPT !.op = "SaveApplication", !.res = Running]
            /\ UNCHANGED store

\* the handler's run ends in an exception: its locals are gone
Abort(s, err) ==
    /\ pc' = [pc EXCEPT ![s] = "idle"]
    /\ company_name' = [company_name EXCEPT ![s] = ""]
    /\ check_comp' = [check_comp EXCEPT ![s] = <<>>]
    /\ comp_id' = [comp_id EXCEPT ![s] = 0]
    /\ last' = [NoOp EXCEPT !.op = "SaveApplication", !.res = err,
                            !.name = company_name[s],
                            !.created = IF pc[s] = "insert" /\ check_comp[s] = <<>>
                                        THEN comp_id[s] ELSE 0]

\* run_query("INSERT INTO companies (name) VALUES (?)", (company_name,))
SaveCreateCompany(s) ==
    /\ pc[s] = "create"
    /\ IF UniqueViolation(companies, company_name[s])
       THEN /\ Abort(s, IntegrityError)
            /\ UNCHANGED <<store, returned>>
       ELSE /\ companies' = InsertCompany(companies, company_name[s])
            /\ pc' = [pc EXCEPT ![s] = "read"]
            /\ last' = [NoOp EXCEPT !.op = "SaveApplication", !.res = Running]
            /\ UNCHANGED <<contacts, applications, company_name, check_comp,
                           comp_id, returned>>

\* comp_id = int(get_data("SELECT id FROM companies WHERE name=?", ...).iloc[0]['id'])
SaveReadId(s) ==
    /\ pc[s] = "read"
    /\ LET got == SelectCompanyId(companies, company_name[s]) IN
       /\ got # <<>>
       /\ comp_id' = [comp_id EXCEPT ![s] = got[1]]
       /\ returned' = [returned EXCEPT ![company_name[s]] = @ \cup {got[1]}]
    /\ pc' = [pc EXCEPT ![s] = "insert"]
    /\ last' = [NoOp EXCEPT !.op = "SaveApplication", !.res = Running]
    /\ UNCHANGED <<store, company_name, check_comp>>

\* run_query('INSERT INTO applications ...', (comp_id, position, job_link, status,
\* applied_date, follow_up, resume_ver)); st.success(...)
SaveInsertApplication(s, k, follow_up) ==
    /\ pc[s] = "insert"
    /\ IF ForeignKeyViolation(companies, comp_id[s])
       THEN /\ Abort(s, IntegrityError)
            /\ UNCHANGED <<store, returned>>
       ELSE /\ applications' =
                  InsertApplication(applications, comp_id[s], Stages[k], follow_up)
            /\ pc' = [pc EXCEPT ![s] = "idle"]
            /\ company_name' = [company_name EXCEPT ![s] = ""]
            /\ check_comp' = [check_comp EXCEPT ![s] = <<>>]
            /\ comp_id' = [comp_id EXCEPT ![s] = 0]
            /\ last' = [NoOp EXCEPT !.op = "SaveApplication",
                                    !.res = Saved, !.name = company_name[s],
                                    !.id = NextId(applications),
                                    !.company_id = comp_id[s]]
            /\ UNCHANGED <<companies, contacts, returned>>

\* c.execute(query, params) of run_query raises before conn.commit(): the
\* statement writes nothing and the exception ends the handler's run
SaveQueryFails(s) ==
    /\ pc[s] \in {"create", "insert"}
    /\ Abort(s, OperationalError)
    /\ UNCHANGED <<store, returned>>

----------------------------------------------------------------------------
(* Update Record *)

\* app_id_to_edit > 0, details not empty, and the three widgets of the edit
\* form: the selectbox starts at index=0 whatever the stored status is, the
\* text widgets start at the stored value or ""; then the UPDATE
UpdateRecord(s, id, k, notes_in, link_in) ==
    /\ pc[s] = "idle"
    /\ LET details == Details(applications, id) IN
       IF id > 0 /\ details # <<>>
       THEN LET new_status == UpdateOptions[k]
                new_notes == IF notes_in = NoEdit
                             THEN OrEmpty(details[1].notes) ELSE notes_in
                new_link == IF link_in = NoEdit
                            THEN OrEmpty(details[1].meeting_link) ELSE link_in
            IN /\ applications' = UpdateApplication(applications, id, new_status,
                                                    new_notes, new_link)
               /\ last' = [NoOp EXCEPT !.op = "UpdateRecord",
                              !.res = Updated, !.id = id,
                              !.from = details[1].status,
                              !.from_link = details[1].meeting_link,
                              !.only_notes = /\ k = DefaultIndex
                                             /\ link_in = NoEdit
                                             /\ notes_in # NoEdit]
       ELSE /\ UNCHANGED applications
            /\ last' = [NoOp EXCEPT !.op = "UpdateRecord",
                                    !.res = NoForm, !.id = id]
    /\ UNCHANGED <<companies, contacts, locals, returned>>

----------------------------------------------------------------------------
(* Save Contact *)

\* companies = get_data("SELECT id, name FROM companies"); if not companies.empty:
\* selected_c among c_dict's keys; run_query("INSERT INTO contacts ...")
SaveContact(s, selected_c) ==
    /\ pc[s] = "idle"
    /\ companies # <<>>
    /\ selected_c \in DOMAIN CDict(companies)
    /\ LET cid == CDict(companies)[selected_c] IN
       IF ForeignKeyViolation(companies, cid)
       THEN /\ UNCHANGED contacts
            /\ last' = [NoOp EXCEPT !.op = "SaveContact",
                                    !.res = IntegrityError, !.company_id = cid]
       ELSE /\ contacts' = InsertContact(contacts, cid)
            /\ last' = [NoOp EXCEPT !.op = "SaveContact",
                                    !.res = ContactAdded, !.id = NextId(contacts),
                                    !.company_id = cid]
    /\ UNCHANGED <<companies, applications, locals, returned>>

----------------------------------------------------------------------------
(* Dashboard *)

\* the three metrics and the action items, rendered on the day `today`
Dashboard(s, today) ==
    /\ pc[s] = "idle"
    /\ last' = [NoOp EXCEPT !.op = "Dashboard", !.today = today,
                   !.total = TotalApps(applications),
                   !.active = ActiveApps(applications),
                   !.interviews = Interviews(applications),
                   !.actions = ActionQuery(applications, companies, today)]
    /\ UNCHANGED <<store, locals, returned>>

----------------------------------------------------------------------------
(* The application: two browser sessions run the handlers against one store *)

\* room for one more application, counting the saves already under way
Room(max) == Len(applications) + InFlight < max

Next ==
    \/ \E s \in Sess, name \in NameInputs :
          (name # "" => Room(MaxApps)) /\ SaveCheck(s, name)
    \/ \E s \in Sess : SaveCreateCompany(s)
    \/ \E s \in Sess : SaveReadId(s)
    \/ \E s \in Sess : SaveInsertApplication(s, 1, <<2024, 12, 29>>)
    \/ \E s \in Sess : SaveQueryFails(s)
    \/ \E s \in Sess, id \in IdInputs(MaxApps) :
          UpdateRecord(s, id, DefaultIndex, NoEdit, NoEdit)
    \/ \E s \in Sess, c \in NameInputs :
          Len(contacts) < MaxContacts /\ SaveContact(s, c)
    \/ \E s \in Sess : Dashboard(s, <<2024, 12, 29>>)

Spec == Init /\ [][Next]_vars

----------------------------------------------------------------------------
(* One session, every choice of the edit form *)

NextEdit ==
    \/ \E name \in {"", "Acme"} :
          (name # "" => Room(MaxAppsEdit)) /\ SaveCheck("s1", name)
    \/ SaveCreateCompany("s1")
    \/ SaveReadId("s1")
    \/ \E k \in DOMAIN Stages : SaveInsertApplication("s1", k, <<2024, 12, 29>>)
    \/ SaveQueryFails("s1")
    \/ \E id \in IdInputs(MaxAppsEdit), k \in DOMAIN UpdateOptions,
          n \in NotesInputs, l \in LinkInputs : UpdateRecord("s1", id, k, n, l)

SpecEdit == Init /\ [][NextEdit]_vars

----------------------------------------------------------------------------
(* One session, every stage and follow-up date, the dashboard on every day *)

NextDash ==
    \/ \E name \in {"", "Acme"} :
          (name # "" => Room(MaxAppsDash)) /\ SaveCheck("s1", name)
    \/ SaveCreateCompany("s1")
    \/ SaveReadId("s1")
    \/ \E k \in DOMAIN Stages, f \in FollowUps : SaveInsertApplication("s1", k, f)
    \/ SaveQueryFails("s1")
    \/ \E id \in IdInputs(MaxAppsDash), k \in DOMAIN UpdateOptions :
          UpdateRecord("s1", id, k, NoEdit, NoEdit)
    \/ \E t \in Todays : Dashboard("s1", t)

SpecDash == Init /\ [][NextDash]_vars

----------------------------------------------------------------------------
(* The store alone: the statements of run_query, called with any parameters *)

\* run_query("INSERT INTO companies (name) VALUES (?)", (name,))
CreateCompany(name) ==
    /\ IF UniqueViolation(companies, name)
       THEN /\ UNCHANGED companies
            /\ last' = [NoOp EXCEPT !.op = "createCompany", !.res = IntegrityError,
                                    !.name = name]
       ELSE /\ companies' = InsertCompany(companies, name)
            /\ last' = [NoOp EXCEPT !.op = "createCompany", !.res = "ok",
                                    !.name = name, !.id = NextId(companies)]
    /\ UNCHANGED <<contacts, applications, locals, returned>>

\* run_query('INSERT INTO applications ...', (cid, ...)) with any company id
CreateApplication(cid, k, follow_up) ==
    /\ IF ForeignKeyViolation(companies, cid)
       THEN /\ UNCHANGED applications
            /\ last' = [NoOp EXCEPT !.op = "createApplication",
                                    !.res = IntegrityError, !.company_id = cid,
                                    !.n_before = Len(applications)]
       ELSE /\ applications' = InsertApplication(applications, cid, Stages[k],
                                                 follow_up)
            /\ last' = [NoOp EXCEPT !.op = "createApplication", !.res = "ok",
                                    !.id = NextId(applications),
                                    !.company_id = cid,
                                    !.n_before = Len(applications)]
    /\ UNCHANGED <<companies, contacts, locals, returned>>

\* company ids a caller may pass
CompanyIdInputs == 1..3

NextRepo ==
    \/ \E name \in NameInputs \ {""} : CreateCompany(name)
    \/ \E cid \in CompanyIdInputs, k \in {1, 6} :
          Len(applications) < MaxAppsRepo /\ CreateApplication(cid, k, <<2024, 12, 29>>)

SpecRepo == Init /\ [][NextRepo]_vars

----------------------------------------------------------------------------
(* Vocabulary of the properties *)

Range(f) == {f[i] : i \in DOMAIN f}

CompanyNames == NameInputs \ {""}

\* positions of the company rows called n
RowsNamed(n) == {i \in DOMAIN companies : companies[i].name = n}

\* the application row with this id
AppRow(id) == applications[CHOOSE i \in DOMAIN applications : applications[i].id = id]

\* sub occurs in text, letter for letter
Contains(text, sub) ==
    \E i \in 0..(Len(text) - Len(sub)) : \A j \in 1..Len(sub) : text[i + j] = sub[j]

\* "YYYY-MM-DD" read back as <<year, month, day>>
ParseIso(t) ==
    << (t[1] - 48) * 1000 + (t[2] - 48) * 100 + (t[3] - 48) * 10 + (t[4] - 48),
       (t[6] - 48) * 10 + (t[7] - 48),
       (t[9] - 48) * 10 + (t[10] - 48) >>

RECURSIVE DaysBeforeMonth(_, _)
DaysBeforeMonth(y, m) ==
    IF m = 1 THEN 0 ELSE DaysBeforeMonth(y, m - 1) + DaysInMonth(y, m - 1)

\* the day's number in the proleptic Gregorian calendar
Ordinal(d) ==
    LET y == d[1] - 1 IN
    365 * y + (y \div 4) - (y \div 100) + (y \div 400)
        + DaysBeforeMonth(d[1], d[2]) + d[3]

----------------------------------------------------------------------------
(* C1 *)

\* C1: get-or-create of a company never resolves one name to two ids: every
\* id a save obtained for the name n is the id of the one company row called
\* n, and no two company rows share a name.
C1_GetOrCreateSameId ==
    \A n \in CompanyNames :
        /\ Cardinality(RowsNamed(n)) <= 1
        /\ Cardinality(returned[n]) <= 1
        /\ returned[n] # {} =>
              returned[n] = {companies[i].id : i \in RowsNamed(n)}

\* two saves under the same name have completed
C1_Witness ==
    \E n \in CompanyNames :
        /\ returned[n] # {}
        /\ Cardinality({i \in DOMAIN applications :
                           applications[i].company_id \in returned[n]}) >= 2

----------------------------------------------------------------------------
(* C2 *)

\* C2: every application row and every contact row carries the id of an
\* existing company row.
C2_ReferentialIntegrity ==
    /\ \A i \in DOMAIN applications :
          applications[i].company_id \in Ids(companies)
    /\ \A i \in DOMAIN contacts : contacts[i].company_id \in Ids(companies)

\* an application that was updated and a contact are both stored
C2_Witness ==
    /\ contacts # <<>>
    /\ \E i \in DOMAIN applications : applications[i].notes # NULL
    /\ last.op = "SaveContact"

----------------------------------------------------------------------------
(* C3 *)

\* C3 (as claimed): an application created with a company id no company row
\* has is refused with an integrity error and the applications table keeps
\* its row count.
C3_DanglingCompanyRefused ==
    (last.op = "createApplication" /\ last.company_id \notin Ids(companies)) =>
        (last.res = IntegrityError /\ Len(applications) = last.n_before)

----------------------------------------------------------------------------
(* C4 *)

\* C4 (as claimed): an Update Record in which only the notes were edited
\* leaves the application's status and meeting link as they were (no link
\* and the empty link counted as the same link).
C4_NotesOnlyKeepsStatusAndLink ==
    (last.op = "UpdateRecord" /\ last.res = Updated /\ last.only_notes) =>
        /\ AppRow(last.id).status = last.from
        /\ OrEmpty(AppRow(last.id).meeting_link) = OrEmpty(last.from_link)

----------------------------------------------------------------------------
(* C5 *)

----------------------------------------------------------------------------
(* C6 *)

\* C6: on every day the dashboard is rendered, an application is among the
\* action items exactly when its follow-up date d satisfies
\* today <= d <= today + 3 days, or its status contains "Interview" and
\* d >= today.
C6_ActionItems ==
    last.op = "Dashboard" =>
        \A i \in DOMAIN applications :
            LET d == Ordinal(ParseIso(applications[i].follow_up_date))
                t == Ordinal(last.today)
            IN (applications[i].id \in last.actions) <=>
                  \/ t <= d /\ d <= t + 3
                  \/ Contains(applications[i].status, Interview) /\ d >= t

\* a Tech Interview application due in 100 days is listed
C6_Witness ==
    /\ last.op = "Dashboard"
    /\ \E i \in DOMAIN applications :
          /\ applications[i].status = TechInterview
          /\ Ordinal(ParseIso(applications[i].follow_up_date))
                = Ordinal(last.today) + 100
          /\ applications[i].id \in last.actions

----------------------------------------------------------------------------
(* C7 *)

\* C7 (as claimed): a Save Application that ends in an error leaves the store
\* as it found it: the company row its own run inserted is not there.
C7_SaveAllOrNothing ==
    (last.op = "SaveApplication" /\ last.res \in Errors) =>
        last.created \notin Ids(companies)

----------------------------------------------------------------------------
(* C8 *)

\* the applications table holding one row of each given status
TableOf(statuses) ==
    [i \in DOMAIN statuses |->
        InsertApplication(<<>>, 1, statuses[i], AppliedDate)[1]]

\* C8: the active-applications metric is the number of applications whose
\* status is neither "Rejected" nor "Offer Accepted" (1 for the statuses
\* Applied, Rejected, Offer Accepted), and in every state the forms can reach
\* it is the total minus the number of rejected applications.
C8_ActiveMetric ==
    /\ ActiveApps(TableOf(<<Applied, Rejected, OfferAccepted>>)) = 1
    /\ last.op = "Dashboard" =>
          /\ last.active = Cardinality({i \in DOMAIN applications :
                              applications[i].status # Rejected
                              /\ applications[i].status # OfferAccepted})
          /\ last.active = last.total - Cardinality({i \in DOMAIN applications :
                                           applications[i].status = Rejected})

\* the dashboard shows an offer-stage application as active
C8_Witness ==
    /\ last.op = "Dashboard"
    /\ last.total = 1
    /\ last.active = 1
    /\ applications[1].status = Offer

----------------------------------------------------------------------------
(* C9 *)

\* C9: whatever the status of a stored application, a session at rest can
\* move it to any of the six stages with one Update Record.
C9_AnyTransition ==
    \A s \in Sess, i \in DOMAIN applications, t \in Range(Stages) :
        pc[s] = "idle" =>
            \E k \in DOMAIN UpdateOptions :
                ENABLED (/\ UpdateRecord(s, applications[i].id, k, NoEdit, NoEdit)
                         /\ applications'[i].status = t)

\* an application was moved back from Rejected to Applied
C9_Witness ==
    /\ last.op = "UpdateRecord"
    /\ last.res = Updated
    /\ last.from = Rejected
    /\ AppRow(last.id).status = Applied

----------------------------------------------------------------------------
(* C10 *)

\* C10: however the statements of two saves of one new company name
\* interleave, at most one company row carries the name, a save that reaches
\* its application insert holds the id of that row, and the application it
\* saves references that row.
C10_RaceKeepsOneCompany ==
    /\ \A n \in CompanyNames : Cardinality(RowsNamed(n)) <= 1
    /\ \A s \in Sess :
          pc[s] = "insert" =>
              {companies[i].id : i \in RowsNamed(company_name[s])} = {comp_id[s]}
    /\ (last.op = "SaveApplication" /\ last.res = Saved) =>
          /\ {companies[i].id : i \in RowsNamed(last.name)} = {last.company_id}
          /\ AppRow(last.id).company_id = last.company_id

\* both sessions looked the name up before either inserted it: the second
\* insert was refused, and the application of the first is stored
C10_Witness ==
    /\ last.op = "SaveApplication"
    /\ last.res = IntegrityError
    /\ \E i \in DOMAIN applications :
          applications[i].company_id
              \in {companies[j].id : j \in RowsNamed(last.name)}

====
